---------------------------- MODULE Spec2Model ----------------------------
(***************************************************************************)
(* A model of official/resnet/cifar10_main.py: the CIFAR-10 record         *)
(* decoder (parse_record, preprocess_image), the tf.data input pipeline    *)
(* built by input_fn, the stage layout of Cifar10Model and the learning    *)
(* rate schedule requested by cifar10_model_fn.                            *)
(***************************************************************************)
EXTENDS Integers, Sequences, FiniteSets, TLC

(***************************************************************************)
(* Program constants                                                       *)
(***************************************************************************)
_HEIGHT == 32
_WIDTH == 32
_NUM_CHANNELS == 3
_DEFAULT_IMAGE_SIZE == _HEIGHT * _WIDTH * _NUM_CHANNELS
_NUM_CLASSES == 10
_NUM_DATA_FILES == 5
_NUM_IMAGES_train == 50000
_NUM_IMAGES_validation == 10000
\* tf.uint8: the largest value of one byte of a record
MaxByte == 255

(***************************************************************************)
(* Bounds of the model                                                     *)
(***************************************************************************)
\* resnet_size ranges over -MaxResnetSize .. MaxResnetSize
MaxResnetSize == 60
\* raw buffers are up to MaxDelta bytes shorter or longer than one record
MaxDelta == 1
\* synthetic pixel arrays are numbered 0 .. MaxPattern
MaxPattern == 1
\* params['batch_size'] of the model function ranges over 32 * (1 .. MaxBatchMultiple)
MaxBatchMultiple == 16
\* the learning rate is looked up within MaxStepDelta steps of each boundary,
\* at step 0 and at step MaxGlobalStep
MaxStepDelta == 1
MaxGlobalStep == 100000
\* the data files hold at most MaxRecords records in all
MaxRecords == 2
\* batch_size of input_fn ranges over 1 .. MaxBatch
MaxBatch == 2
\* num_epochs of input_fn ranges over 0 .. MaxEpochs
MaxEpochs == 2
\* the random seed of a call ranges over 0 .. MaxSeed
MaxSeed == 1

Min(a, b) == IF a <= b THEN a ELSE b

VARIABLES
    \* Cifar10Model.__init__
    resnet_size,      \* the argument of the constructor
    init_pc,          \* how far the constructor has got
    layers,           \* the value of self._get_layers(resnet_size), once computed
    stride_sizes,     \* the value of self._get_stride_sizes(), once computed
    base_model,       \* the keyword arguments resnet_model.Model.__init__ was entered with
    init_error,       \* the exception the constructor raised
    \* parse_record
    synthetic,        \* where the raw record comes from: label byte, pixel array, length
    raw_record,       \* the argument of parse_record: a sequence of bytes
    parse_pc,         \* "ready", "returned" or "raised"
    image,            \* the returned image[row][col][channel]
    label,            \* the returned label vector
    parse_error,      \* the error parse_record raised
    \* cifar10_model_fn and its learning rate schedule
    lr_batch_size,    \* params['batch_size']
    lr_pc,            \* "start", "built" or "looked"
    boundaries,       \* the schedule's boundaries, in steps
    vals,             \* the schedule's rates, as fractions <<numerator, denominator>>
    global_step,      \* the step the rate was last looked up at
    learning_rate,    \* the rate last looked up
    \* input_fn
    is_training,      \* argument of input_fn
    dir_exists,       \* os.path.exists(data_dir/cifar-10-batches-bin)
    batch_size,       \* argument of input_fn
    num_epochs,       \* argument of input_fn
    file_records,     \* the number of records each data file holds
    pipe              \* per call of input_fn: the state of its dataset iterator

layoutVars == <<resnet_size, init_pc, layers, stride_sizes, base_model, init_error>>
parseVars == <<synthetic, raw_record, parse_pc, image, label, parse_error>>
lrVars == <<lr_batch_size, lr_pc, boundaries, vals, global_step, learning_rate>>
inputVars == <<is_training, dir_exists, batch_size, num_epochs, file_records, pipe>>
vars == <<layoutVars, parseVars, lrVars, inputVars>>
notLayoutVars == <<parseVars, lrVars, inputVars>>
notParseVars == <<layoutVars, lrVars, inputVars>>
notLrVars == <<layoutVars, parseVars, inputVars>>
notInputVars == <<layoutVars, parseVars, lrVars>>

None == "none"

(***************************************************************************)
(* Cifar10Model: the stage layout                                          *)
(***************************************************************************)
\* A plausible slip of _get_layers: the check of the size is left out.
_get_layers_unchecked(size) ==
    [raised |-> FALSE, value |-> [i \in 1..3 |-> (size - 2) \div 6]]

\* A plausible slip of _get_layers: one stage too many.
_get_layers_four(size) ==
    IF size % 6 # 2
    THEN [raised |-> TRUE, value |-> "ValueError"]
    ELSE [raised |-> FALSE, value |-> [i \in 1..4 |-> (size - 2) \div 6]]

\* Python's % and // round towards minus infinity, as TLA+'s % and \div do.
_get_layers(size) ==
    IF size % 6 # 2
    THEN [raised |-> TRUE, value |-> "ValueError"]
    ELSE LET num_blocks == (size - 2) \div 6
         IN [raised |-> FALSE, value |-> [i \in 1..3 |-> num_blocks]]

_get_stride_sizes == <<1, 1, 2, 2, 1>>

LayoutIdle ==
    /\ resnet_size = 0
    /\ init_pc = "idle"
    /\ layers = None
    /\ stride_sizes = None
    /\ base_model = None
    /\ init_error = None

\* Cifar10Model(resnet_size) has been called and nothing evaluated yet.
InitLayout ==
    /\ resnet_size \in (-MaxResnetSize)..MaxResnetSize
    /\ init_pc = "start"
    /\ layers = None
    /\ stride_sizes = None
    /\ base_model = None
    /\ init_error = None

\* The argument layers=self._get_layers(resnet_size) is evaluated.
GetLayers ==
    /\ init_pc = "start"
    /\ LET r == _get_layers(resnet_size)
       IN IF r.raised
          THEN /\ init_pc' = "raised"
               /\ init_error' = r.value
               /\ UNCHANGED layers
          ELSE /\ init_pc' = "layers"
               /\ layers' = r.value
               /\ UNCHANGED init_error
    /\ UNCHANGED <<resnet_size, stride_sizes, base_model, notLayoutVars>>

\* The argument stride_sizes=self._get_stride_sizes() is evaluated.
GetStrideSizes ==
    /\ init_pc = "layers"
    /\ stride_sizes' = _get_stride_sizes
    /\ init_pc' = "strides"
    /\ UNCHANGED <<resnet_size, layers, base_model, init_error, notLayoutVars>>

\* With every argument evaluated, resnet_model.Model.__init__ is entered.
BaseInit ==
    /\ init_pc = "strides"
    /\ base_model' = [resnet_size |-> resnet_size,
                      num_classes |-> _NUM_CLASSES,
                      num_filters |-> 16,
                      kernel_size |-> 3,
                      first_pool_size |-> None,
                      second_pool_size |-> 8,
                      layers |-> layers,
                      stride_sizes |-> stride_sizes,
                      final_size |-> 64]
    /\ init_pc' = "constructed"
    /\ UNCHANGED <<resnet_size, layers, stride_sizes, init_error, notLayoutVars>>

NextLayout == GetLayers \/ GetStrideSizes \/ BaseInit

(***************************************************************************)
(* parse_record                                                            *)
(***************************************************************************)
label_bytes == 1
record_bytes == label_bytes + _DEFAULT_IMAGE_SIZE

\* Pixel (row, col, channel) of synthetic pixel array number k.
Pixel(k, row, col, ch) ==
    ((1 + k) * row + (32 + 3 * k) * col + (85 + 7 * k) * ch + 11 * k) % (MaxByte + 1)

\* A buffer of len bytes: the label byte, then the pixels of array k in
\* channel-major order, cut off or followed by zero bytes.
Buffer(lab, k, len) ==
    [i \in 1..len |->
        IF i = 1 THEN lab
        ELSE IF i > record_bytes THEN 0
        ELSE LET o == i - 2
             IN Pixel(k, (o % (_HEIGHT * _WIDTH)) \div _WIDTH, o % _WIDTH,
                      o \div (_HEIGHT * _WIDTH))]

\* tf.decode_raw(bytes, tf.uint8): one uint8 per byte.
decode_raw(bytes) == [i \in 1..Len(bytes) |-> bytes[i] % (MaxByte + 1)]

\* tf.one_hot(indices, depth): all zeros when indices is outside 0..depth-1.
one_hot(indices, depth) == [i \in 1..depth |-> IF i - 1 = indices THEN 1 ELSE 0]

\* vector[begin:end] of a tensor: both ends are clamped to the length.
Slice(vector, begin, end) ==
    LET b == Min(begin, Len(vector))
        e == Min(end, Len(vector))
    IN [i \in 1..(e - b) |-> vector[b + i]]

\* tf.reshape(flat, [d0, d1, d2]): row-major; the caller checks the size.
reshape(flat, d0, d1, d2) ==
    [a \in 0..(d0 - 1) |-> [b \in 0..(d1 - 1) |-> [c \in 0..(d2 - 1) |->
        flat[(a * d1 + b) * d2 + c + 1]]]]

\* A plausible slip: the axes permuted as [2, 1, 0].
transpose_210(t, d0, d1, d2) ==
    [b \in 0..(d1 - 1) |-> [c \in 0..(d2 - 1) |-> [a \in 0..(d0 - 1) |->
        t[a][c][b]]]]

\* tf.transpose(t, [1, 2, 0]) of a tensor of shape [d0, d1, d2].
transpose_120(t, d0, d1, d2) ==
    [b \in 0..(d1 - 1) |-> [c \in 0..(d2 - 1) |-> [a \in 0..(d0 - 1) |->
        t[a][b][c]]]]

parse_record(raw) ==
    LET record_vector == decode_raw(raw)
    IN IF Len(record_vector) = 0
       THEN \* record_vector[0] of an empty vector
            [raised |-> TRUE, error |-> "InvalidArgumentError"]
       ELSE LET flat == Slice(record_vector, label_bytes, record_bytes)
            IN IF Len(flat) # _NUM_CHANNELS * _HEIGHT * _WIDTH
               THEN \* tf.reshape: the number of elements does not match
                    [raised |-> TRUE, error |-> "InvalidArgumentError"]
               ELSE [raised |-> FALSE,
                     \* uint8 to int32 and uint8 to float32 keep the value
                     label |-> one_hot(record_vector[1], _NUM_CLASSES),
                     image |-> transpose_120(
                                   reshape(flat, _NUM_CHANNELS, _HEIGHT, _WIDTH),
                                   _NUM_CHANNELS, _HEIGHT, _WIDTH)]

ParseIdle ==
    /\ synthetic = None
    /\ raw_record = <<>>
    /\ parse_pc = "idle"
    /\ image = None
    /\ label = None
    /\ parse_error = None

Lengths == {0, 1} \cup ((record_bytes - MaxDelta)..(record_bytes + MaxDelta))

\* The label bytes next to the ends of the valid range and of the byte range.
EdgeLabels == {0, _NUM_CLASSES - 1, _NUM_CLASSES, MaxByte}

\* The buffers tried: every label byte in a full record of pixel array 0, and
\* every length and pixel array with the edge labels.
ParseInputs ==
    {in \in [label : 0..MaxByte, pattern : 0..MaxPattern, length : Lengths] :
        \/ in.label \in EdgeLabels
        \/ in.pattern = 0 /\ in.length = record_bytes}

InitParse ==
    /\ synthetic \in ParseInputs
    /\ raw_record = Buffer(synthetic.label, synthetic.pattern, synthetic.length)
    /\ parse_pc = "ready"
    /\ image = None
    /\ label = None
    /\ parse_error = None

ParseRecord ==
    /\ parse_pc = "ready"
    /\ \E r \in {parse_record(raw_record)} :
          IF r.raised
          THEN /\ parse_pc' = "raised"
               /\ parse_error' = r.error
               /\ UNCHANGED <<image, label>>
          ELSE /\ parse_pc' = "returned"
               /\ image' = r.image
               /\ label' = r.label
               /\ UNCHANGED parse_error
    /\ UNCHANGED <<synthetic, raw_record, notParseVars>>

NextParse == ParseRecord

(***************************************************************************)
(* cifar10_model_fn: the learning rate schedule                            *)
(***************************************************************************)
\* The arguments cifar10_model_fn passes to learning_rate_with_decay.  A rate
\* is a fraction <<numerator, denominator>>: 1e-3 is <<1, 1000>>.
lr_batch_denom == 128
lr_num_images_validation == _NUM_IMAGES_validation
lr_num_images == _NUM_IMAGES_train
boundary_epochs == <<100, 150, 200>>
decay_rates == << <<1, 1>>, <<1, 10>>, <<1, 100>>, <<1, 1000>> >>

RatMul(a, b) == <<a[1] * b[1], a[2] * b[2]>>
RatEq(a, b) == a[1] * b[2] = b[1] * a[2]

\* resnet_shared.learning_rate_with_decay: the schedule it builds.
learning_rate_with_decay(bsize, denom, num_images, epochs, decays) ==
    IF Len(decays) # Len(epochs) + 1
    THEN [raised |-> TRUE, error |-> "ConfigError"]
    ELSE LET base_rate == RatMul(<<1, 10>>, <<bsize, denom>>)
             batches_per_epoch == num_images \div bsize
         IN [raised |-> FALSE,
             boundaries |-> [i \in 1..Len(epochs) |-> batches_per_epoch * epochs[i]],
             vals |-> [i \in 1..Len(decays) |-> RatMul(base_rate, decays[i])]]

\* The learning_rate_fn it returns: the rate in force at a global step.
learning_rate_fn(bounds, rates, step) ==
    rates[Cardinality({i \in 1..Len(bounds) : bounds[i] <= step}) + 1]

LrIdle ==
    /\ lr_batch_size = 0
    /\ lr_pc = "idle"
    /\ boundaries = None
    /\ vals = None
    /\ global_step = 0
    /\ learning_rate = None

\* cifar10_model_fn has been called with params['batch_size'].
InitLr ==
    /\ lr_batch_size \in {32 * k : k \in 1..MaxBatchMultiple}
    /\ lr_pc = "start"
    /\ boundaries = None
    /\ vals = None
    /\ global_step = 0
    /\ learning_rate = None

\* cifar10_model_fn builds the schedule.
ModelFn ==
    /\ lr_pc = "start"
    /\ \E r \in {learning_rate_with_decay(lr_batch_size, lr_batch_denom,
                                          lr_num_images, boundary_epochs,
                                          decay_rates)} :
          IF r.raised
          THEN /\ lr_pc' = "raised"
               /\ UNCHANGED <<boundaries, vals>>
          ELSE /\ lr_pc' = "built"
               /\ boundaries' = r.boundaries
               /\ vals' = r.vals
    /\ UNCHANGED <<lr_batch_size, global_step, learning_rate, notLrVars>>

\* The steps at which the rate is looked up.
StepsTried ==
    {0, MaxGlobalStep} \cup
    {boundaries[i] + d : i \in 1..Len(boundaries), d \in (-MaxStepDelta)..MaxStepDelta}

\* The training loop asks for the rate of a global step.
LearningRate ==
    /\ lr_pc \in {"built", "looked"}
    /\ \E step \in StepsTried :
          /\ global_step' = step
          /\ learning_rate' = learning_rate_fn(boundaries, vals, step)
    /\ lr_pc' = "looked"
    /\ UNCHANGED <<lr_batch_size, boundaries, vals, notLrVars>>

NextLr == ModelFn \/ LearningRate

(***************************************************************************)
(* input_fn: the dataset pipeline                                          *)
(***************************************************************************)
Calls == {1, 2}

DataDirName == "cifar-10-batches-bin"
DataBatchFile(i) == "data_batch_" \o ToString(i) \o ".bin"
TestBatchFile == "test_batch.bin"
TrainFiles == {DataBatchFile(i) : i \in 1.._NUM_DATA_FILES}
FileNames == TrainFiles \cup {TestBatchFile}

\* A plausible slip of get_filenames: the directory is not checked.
get_filenames_unchecked(training, exists) ==
    [raised |-> FALSE,
     value |-> IF training
               THEN [i \in 1.._NUM_DATA_FILES |-> <<DataDirName, DataBatchFile(i)>>]
               ELSE << <<DataDirName, TestBatchFile>> >>]

\* A path is the sequence of its components below data_dir.
get_filenames(training, exists) ==
    IF ~exists
    THEN [raised |-> TRUE, error |-> "AssertionError"]
    ELSE [raised |-> FALSE,
          value |-> IF training
                    THEN [i \in 1.._NUM_DATA_FILES |-> <<DataDirName, DataBatchFile(i)>>]
                    ELSE << <<DataDirName, TestBatchFile>> >>]

\* tf.data.FixedLengthRecordDataset(filenames, record_bytes): the records of
\* the files, in the order of the files.
RECURSIVE record_dataset(_, _)
record_dataset(filenames, recs) ==
    IF filenames = <<>>
    THEN <<>>
    ELSE [j \in 1..recs[Head(filenames)[2]] |->
             [file |-> Head(filenames)[2], index |-> j]]
         \o record_dataset(Tail(filenames), recs)

\* The place of a record's file in filenames.
FileNo(filenames, rec) ==
    CHOOSE i \in 1..Len(filenames) : filenames[i][2] = rec.file

\* dataset.map(parse_record): the image and label decoded from a record.  In
\* the pipeline a sample is written as the record it was decoded from and the
\* preprocessing it went through.
parsed_record(rec) ==
    [record |-> rec, crop |-> None, flip |-> FALSE, standardized |-> FALSE]

\* The padding of resize_image_with_crop_or_pad: 8 rows and 8 columns.
PadTotal == 8

\* The draws of tf.random_crop and tf.image.random_flip_left_right for the
\* k-th image of a call: a function of the call's random seed.
random_draw(seed, k) ==
    [crop |-> <<(seed + k) % (PadTotal + 1), (2 * seed + 3 * k) % (PadTotal + 1)>>,
     flip |-> (seed + k) % 2 = 1]

\* A plausible slip of preprocess_image: the augmentation is not guarded.
preprocess_image_always(img, training, draw) ==
    [img EXCEPT !.crop = draw.crop, !.flip = draw.flip, !.standardized = TRUE]

preprocess_image(img, training, draw) ==
    IF training
    THEN [img EXCEPT !.crop = draw.crop, !.flip = draw.flip, !.standardized = TRUE]
    ELSE [img EXCEPT !.standardized = TRUE]

RECURSIVE Repeated(_, _)
Repeated(s, n) == IF n = 0 THEN <<>> ELSE s \o Repeated(s, n - 1)

\* A plausible slip of input_fn: repeat is called before shuffle.
repeat_before_shuffle(records, epochs) ==
    [pass |-> Repeated(records, epochs), passes |-> IF epochs = 0 THEN 0 ELSE 1]

\* dataset.repeat(num_epochs) is called after shuffle, map and prefetch: what
\* is upstream of it reads the records once, and repeat restarts it.
repeat_after_shuffle(records, epochs) ==
    [pass |-> records, passes |-> epochs]

\* dataset.shuffle(buffer_size=_NUM_IMAGES['train'])
shuffle_buffer_size == _NUM_IMAGES_train

\* dataset.prefetch(2 * batch_size)
prefetch_buffer_size(bsize) == 2 * bsize

\* A plausible slip of batching: the last, smaller batch is dropped.
final_batches_dropped(batches, partial) == batches

\* dataset.batch(batch_size) at the end of its input: what is left is a batch.
final_batches(batches, partial) ==
    IF partial = <<>> THEN batches ELSE Append(batches, partial)

IdleCall ==
    [pc |-> "idle", error |-> None, filenames |-> <<>>, seed |-> 0, opened |-> 0,
     epoch |-> 0, cursor |-> 0, shuffle_buf |-> {}, prefetch_buf |-> <<>>,
     prefetch_done |-> FALSE, drawn |-> 0, stream |-> <<>>, partial |-> <<>>,
     batches |-> <<>>]

InputIdle ==
    /\ is_training = FALSE
    /\ dir_exists = FALSE
    /\ batch_size = 1
    /\ num_epochs = 1
    /\ file_records = [f \in FileNames |-> 0]
    /\ pipe = [c \in Calls |-> IdleCall]

RECURSIVE Sum(_, _)
Sum(f, S) == IF S = {} THEN 0
             ELSE LET x == CHOOSE y \in S : TRUE IN f[x] + Sum(f, S \ {x})

\* The training files that may hold records: the first and the last.
FilledTrainFiles == {DataBatchFile(1), DataBatchFile(_NUM_DATA_FILES)}

\* The files of the split that is read hold up to MaxRecords records in all,
\* the training records in the files of FilledTrainFiles; without the
\* directory there are no files.
InitInput ==
    /\ is_training \in BOOLEAN
    /\ dir_exists \in BOOLEAN
    /\ batch_size \in 1..MaxBatch
    /\ num_epochs \in 0..MaxEpochs
    /\ file_records \in [FileNames -> 0..MaxRecords]
    /\ Sum(file_records, FileNames) <= MaxRecords
    /\ \A f \in FileNames :
          (\/ ~dir_exists
           \/ (f \in TrainFiles) # is_training
           \/ f \in TrainFiles \ FilledTrainFiles) => file_records[f] = 0
    /\ pipe = [c \in Calls |-> IdleCall]

\* The records one pass reads and the number of passes of call c.
Plan(c) ==
    repeat_after_shuffle(record_dataset(pipe[c].filenames, file_records), num_epochs)

\* input_fn(is_training, data_dir, batch_size, num_epochs) builds the dataset
\* and its one-shot iterator, whose random operations get the seed s of this
\* call; nothing is read yet.
InputFn(c) ==
    /\ pipe[c].pc = "idle"
    /\ \E r \in {get_filenames(is_training, dir_exists)}, s \in 0..MaxSeed :
          IF r.raised
          THEN pipe' = [pipe EXCEPT ![c].pc = "failed", ![c].error = r.error]
          ELSE pipe' = [pipe EXCEPT ![c].pc = "running", ![c].filenames = r.value,
                                    ![c].seed = s]
    /\ UNCHANGED <<is_training, dir_exists, batch_size, num_epochs, file_records,
                   notInputVars>>

\* The prefetch thread asks upstream for one more element: the reader (through
\* the shuffle buffer when training), parse_record and preprocess_image.
PrefetchPull(c) ==
    LET p == pipe[c]
        pass == Plan(c).pass
        n == Len(pass)
        \* shuffle fills its buffer from the reader before it hands out anything
        wanted == IF is_training
                  THEN shuffle_buffer_size - Cardinality(p.shuffle_buf)
                  ELSE 1
        cursor == Min(n, p.cursor + wanted)
        at_end == p.cursor + wanted > n
        buf == IF is_training THEN p.shuffle_buf \cup ((p.cursor + 1)..cursor)
               ELSE (p.cursor + 1)..cursor
        opened == IF at_end THEN Len(p.filenames)
                  ELSE IF cursor = 0 THEN p.opened
                  ELSE IF FileNo(p.filenames, pass[cursor]) > p.opened
                       THEN FileNo(p.filenames, pass[cursor])
                  ELSE p.opened
    IN /\ p.pc = "running"
       /\ p.epoch < Plan(c).passes
       /\ ~p.prefetch_done
       /\ Len(p.prefetch_buf) < prefetch_buffer_size(batch_size)
       /\ IF buf = {}
          THEN pipe' = [pipe EXCEPT ![c].prefetch_done = TRUE, ![c].cursor = cursor,
                                    ![c].opened = opened]
          ELSE \E i \in buf :
                  pipe' = [pipe EXCEPT
                     ![c].cursor = cursor,
                     ![c].opened = opened,
                     ![c].shuffle_buf = IF is_training THEN buf \ {i} ELSE {},
                     ![c].drawn = p.drawn + 1,
                     ![c].prefetch_buf =
                         Append(p.prefetch_buf,
                                preprocess_image(parsed_record(pass[i]), is_training,
                                                 random_draw(p.seed, p.drawn)))]
       /\ UNCHANGED <<is_training, dir_exists, batch_size, num_epochs, file_records,
                      notInputVars>>

\* The batch takes the next element from repeat, which takes it from the
\* prefetch buffer; the batch_size-th element completes a batch.
BatchPull(c) ==
    LET p == pipe[c]
        e == Head(p.prefetch_buf)
    IN /\ p.pc = "running"
       /\ p.prefetch_buf # <<>>
       /\ pipe' = [pipe EXCEPT
             ![c].prefetch_buf = Tail(p.prefetch_buf),
             ![c].stream = Append(p.stream, e),
             ![c].partial = IF Len(p.partial) + 1 = batch_size THEN <<>>
                            ELSE Append(p.partial, e),
             ![c].batches = IF Len(p.partial) + 1 = batch_size
                            THEN Append(p.batches, Append(p.partial, e))
                            ELSE p.batches]
       /\ UNCHANGED <<is_training, dir_exists, batch_size, num_epochs, file_records,
                      notInputVars>>

\* Upstream has ended: repeat counts one epoch and starts upstream afresh.
EpochEnd(c) ==
    LET p == pipe[c]
    IN /\ p.pc = "running"
       /\ p.epoch < Plan(c).passes
       /\ p.prefetch_done
       /\ p.prefetch_buf = <<>>
       /\ pipe' = [pipe EXCEPT ![c].epoch = p.epoch + 1, ![c].cursor = 0,
                               ![c].shuffle_buf = {}, ![c].prefetch_done = FALSE]
       /\ UNCHANGED <<is_training, dir_exists, batch_size, num_epochs, file_records,
                      notInputVars>>

\* repeat has no epoch left: the batch hands out what it holds and the
\* iterator is at its end.
EndOfSequence(c) ==
    LET p == pipe[c]
    IN /\ p.pc = "running"
       /\ p.epoch >= Plan(c).passes
       /\ pipe' = [pipe EXCEPT ![c].pc = "end", ![c].partial = <<>>,
                               ![c].batches = final_batches(p.batches, p.partial)]
       /\ UNCHANGED <<is_training, dir_exists, batch_size, num_epochs, file_records,
                      notInputVars>>

CallStep(c) ==
    \/ InputFn(c)
    \/ PrefetchPull(c)
    \/ BatchPull(c)
    \/ EpochEnd(c)
    \/ EndOfSequence(c)

\* One call of input_fn.
NextInput == CallStep(1)

\* Two independent calls of input_fn.
NextTwoCalls == \E c \in Calls : CallStep(c)

(***************************************************************************)
(* Specifications                                                          *)
(***************************************************************************)
LayoutStart == InitLayout /\ ParseIdle /\ LrIdle /\ InputIdle
SpecLayout == LayoutStart /\ [][NextLayout]_vars

ParseStart == InitParse /\ LayoutIdle /\ LrIdle /\ InputIdle
SpecParse == ParseStart /\ [][NextParse]_vars

LrStart == InitLr /\ LayoutIdle /\ ParseIdle /\ InputIdle
SpecLr == LrStart /\ [][NextLr]_vars

InputStart == InitInput /\ LayoutIdle /\ ParseIdle /\ LrIdle
SpecInput == InputStart /\ [][NextInput]_vars

EvalStart == InitInput /\ ~is_training /\ LayoutIdle /\ ParseIdle /\ LrIdle
SpecEval == EvalStart /\ [][NextTwoCalls]_vars

(***************************************************************************)
(* Claims about the stage layout, checked under SpecLayout                 *)
(***************************************************************************)
\* C1: for every resnet_size with resnet_size mod 6 = 2 the constructor does
\* not raise, the layout has exactly 3 stages, each of (resnet_size - 2) / 6
\* blocks, so that 6 * blocks + 2 = resnet_size, and the strides are
\* [1, 1, 2, 2, 1]; the base constructor receives exactly these.
C1_StageLayout ==
    resnet_size % 6 = 2 =>
        /\ init_pc # "raised"
        /\ init_pc \in {"layers", "strides", "constructed"} =>
              /\ Len(layers) = 3
              /\ \A i \in 1..Len(layers) :
                    /\ 6 * layers[i] + 2 = resnet_size
                    /\ layers[i] = (resnet_size - 2) \div 6
        /\ init_pc \in {"strides", "constructed"} =>
              stride_sizes = <<1, 1, 2, 2, 1>>
        /\ init_pc = "constructed" =>
              /\ base_model.layers = layers
              /\ base_model.stride_sizes = stride_sizes

C1_Witness ==
    /\ resnet_size = 32
    /\ init_pc = "constructed"
    /\ base_model.layers = <<5, 5, 5>>
    /\ base_model.stride_sizes = <<1, 1, 2, 2, 1>>

\* C2: for every resnet_size with resnet_size mod 6 # 2 the constructor can
\* only raise ValueError, and it does so while its arguments are evaluated:
\* no layout is produced and the base constructor is never entered.
C2_InvalidSizeRaisesFirst ==
    resnet_size % 6 # 2 =>
        /\ init_pc \in {"start", "raised"}
        /\ init_pc = "raised" => init_error = "ValueError"
        /\ layers = None
        /\ stride_sizes = None
        /\ base_model = None

C2_Witness ==
    /\ resnet_size = 10
    /\ init_pc = "raised"
    /\ init_error = "ValueError"
    /\ base_model = None

(***************************************************************************)
(* Claims about parse_record, checked under SpecParse                      *)
(***************************************************************************)
\* C3: parse_record raises on every buffer whose length is not 1 + H*W*C,
\* shorter or longer, and returns no sample for it.
C3_WrongLengthRaises ==
    (parse_pc # "ready" /\ Len(raw_record) # record_bytes) =>
        /\ parse_pc = "raised"
        /\ image = None
        /\ label = None

\* The label vector has exactly one 1, at index lab (counted from 0).
IsOneHot(vector, lab) ==
    /\ Len(vector) = _NUM_CLASSES
    /\ \A i \in 1..Len(vector) : vector[i] = IF i = lab + 1 THEN 1 ELSE 0
    /\ Cardinality({i \in 1..Len(vector) : vector[i] = 1}) = 1

\* C4: on a record of the right length, parse_record raises when the label
\* byte is NUM_CLASSES or more and returns no label vector for it; for a
\* label byte in 0..9 it returns the one-hot vector of that label.
C4_LabelRangeChecked ==
    (parse_pc # "ready" /\ Len(raw_record) = record_bytes) =>
        IF raw_record[1] >= _NUM_CLASSES
        THEN parse_pc = "raised" /\ label = None
        ELSE parse_pc = "returned" /\ IsOneHot(label, raw_record[1])

\* raw is the encoding of label lab and pixel array k: the label byte, then
\* pixel (row, col, ch) at offset 1 + ch*H*W + row*W + col.
IsEncoding(raw, lab, k) ==
    /\ Len(raw) = 1 + _HEIGHT * _WIDTH * _NUM_CHANNELS
    /\ raw[1] = lab
    /\ \A row \in 0..(_HEIGHT - 1), col \in 0..(_WIDTH - 1), ch \in 0..(_NUM_CHANNELS - 1) :
          raw[1 + (1 + ch * _HEIGHT * _WIDTH + row * _WIDTH + col)] = Pixel(k, row, col, ch)

\* C5: parsing the encoding of a label in 0..NUM_CLASSES-1 and a pixel array
\* returns the one-hot vector of the label and the image with
\* image[row][col][ch] equal to the pixel, the byte value unchanged.
C5_RoundTrip ==
    (/\ parse_pc # "ready"
     /\ synthetic.label < _NUM_CLASSES
     /\ IsEncoding(raw_record, synthetic.label, synthetic.pattern)) =>
        /\ parse_pc = "returned"
        /\ IsOneHot(label, synthetic.label)
        /\ DOMAIN image = 0..(_HEIGHT - 1)
        /\ \A row \in 0..(_HEIGHT - 1) :
              /\ DOMAIN image[row] = 0..(_WIDTH - 1)
              /\ \A col \in 0..(_WIDTH - 1) :
                    /\ DOMAIN image[row][col] = 0..(_NUM_CHANNELS - 1)
                    /\ \A ch \in 0..(_NUM_CHANNELS - 1) :
                          image[row][col][ch] = Pixel(synthetic.pattern, row, col, ch)

C5_Witness ==
    /\ parse_pc = "returned"
    /\ synthetic = [label |-> 9, pattern |-> 1, length |-> record_bytes]
    /\ IsEncoding(raw_record, 9, 1)
    /\ label[10] = 1
    /\ image[1][2][0] = Pixel(1, 1, 2, 0)
    /\ image[1][2][0] # image[2][1][0]
    /\ image[1][2][0] # image[1][2][1]

(***************************************************************************)
(* Claim about the learning rate schedule, checked under SpecLr            *)
(***************************************************************************)
\* C6: the schedule has boundaries[i] = floor(50000 / batch_size) *
\* boundary_epochs[i] and rates[i] = 0.1 * batch_size / 128 * decay_rates[i];
\* the rate looked up at a global step is rates[k], k the number of
\* boundaries at or below the step; with batch_size 128 the boundaries are
\* [39000, 58500, 78000] and the rates at steps 0, 39000 and 100000 are 0.1,
\* 0.01 and 0.0001.
C6_Schedule ==
    LET epochs == <<100, 150, 200>>
        decays == << <<1, 1>>, <<1, 10>>, <<1, 100>>, <<1, 1000>> >>
    IN /\ lr_pc # "raised"
       /\ lr_pc \in {"built", "looked"} =>
             /\ Len(boundaries) = 3
             /\ \A i \in 1..3 : boundaries[i] = (50000 \div lr_batch_size) * epochs[i]
             /\ Len(vals) = 4
             /\ \A i \in 1..4 :
                   RatEq(vals[i], <<lr_batch_size * decays[i][1], 10 * 128 * decays[i][2]>>)
             /\ lr_batch_size = 128 => boundaries = <<39000, 58500, 78000>>
       /\ lr_pc = "looked" =>
             /\ \A k \in 0..3 :
                   (/\ k > 0 => boundaries[k] <= global_step
                    /\ k < 3 => global_step < boundaries[k + 1])
                   => learning_rate = vals[k + 1]
             /\ lr_batch_size = 128 =>
                   /\ global_step = 0 => RatEq(learning_rate, <<1, 10>>)
                   /\ global_step = 39000 => RatEq(learning_rate, <<1, 100>>)
                   /\ global_step = 100000 => RatEq(learning_rate, <<1, 10000>>)

C6_Witness ==
    /\ lr_batch_size = 128
    /\ lr_pc = "looked"
    /\ global_step = 39000
    /\ boundaries = <<39000, 58500, 78000>>
    /\ RatEq(learning_rate, <<1, 100>>)

(***************************************************************************)
(* Claims about one call of input_fn, checked under SpecInput              *)
(***************************************************************************)
RECURSIVE Flatten(_)
Flatten(batches) ==
    IF batches = <<>> THEN <<>> ELSE Head(batches) \o Flatten(Tail(batches))

\* The files input_fn is to read, and the records they hold.
SplitFiles == IF is_training THEN TrainFiles ELSE {TestBatchFile}
SplitRecords == {[file |-> f, index |-> j] : f \in SplitFiles, j \in 1..MaxRecords}
DatasetRecords == {r \in SplitRecords : r.index <= file_records[r.file]}

\* C7: batching drops no sample.  With T = (records per epoch) * num_epochs
\* and B = batch_size, every batch but the last has exactly B samples; at the
\* end the stream has T samples, there are ceil(T / B) batches, the last has
\* T - B * (ceil(T / B) - 1) samples, and the batches put end to end are the
\* un-batched stream in order.
C7_NoSampleDropped ==
    LET p == pipe[1]
        T == Cardinality(DatasetRecords) * num_epochs
        nb == (T + batch_size - 1) \div batch_size
    IN /\ \A i \in 1..Len(p.batches) :
             /\ Len(p.batches[i]) >= 1
             /\ Len(p.batches[i]) <= batch_size
             /\ i < Len(p.batches) => Len(p.batches[i]) = batch_size
       /\ p.pc = "running" =>
             /\ \A i \in 1..Len(p.batches) : Len(p.batches[i]) = batch_size
             /\ Flatten(p.batches) \o p.partial = p.stream
       /\ p.pc = "end" =>
             /\ Len(p.stream) = T
             /\ Len(p.batches) = nb
             /\ nb > 0 => Len(p.batches[nb]) = T - batch_size * (nb - 1)
             /\ Flatten(p.batches) = p.stream

\* A finished run whose last batch is a partial one: one sample, batches of 2.
C7_Witness ==
    /\ pipe[1].pc = "end"
    /\ batch_size = 2
    /\ Cardinality(DatasetRecords) * num_epochs = 1
    /\ Len(pipe[1].batches) = 1
    /\ pipe[1].batches[1] = <<pipe[1].stream[1]>>

\* C8: without the directory data_dir/cifar-10-batches-bin input_fn fails
\* with the assertion error of get_filenames, before a file is opened and
\* before a record is read, decoded or handed out; with the directory it
\* resolves data_batch_1.bin .. data_batch_5.bin in this order for training
\* and test_batch.bin alone for evaluation.
C8_MissingDirectoryFailsFirst ==
    LET p == pipe[1]
    IN p.pc # "idle" =>
          IF dir_exists
          THEN /\ p.pc # "failed"
               /\ p.error = None
               /\ p.filenames =
                     IF is_training
                     THEN << <<"cifar-10-batches-bin", "data_batch_1.bin">>,
                             <<"cifar-10-batches-bin", "data_batch_2.bin">>,
                             <<"cifar-10-batches-bin", "data_batch_3.bin">>,
                             <<"cifar-10-batches-bin", "data_batch_4.bin">>,
                             <<"cifar-10-batches-bin", "data_batch_5.bin">> >>
                     ELSE << <<"cifar-10-batches-bin", "test_batch.bin">> >>
          ELSE /\ p.pc = "failed"
               /\ p.error = "AssertionError"
               /\ p.filenames = <<>>
               /\ p.opened = 0
               /\ p.cursor = 0
               /\ p.drawn = 0
               /\ p.shuffle_buf = {}
               /\ p.prefetch_buf = <<>>
               /\ p.stream = <<>>
               /\ p.partial = <<>>
               /\ p.batches = <<>>

C8_Witness ==
    /\ ~dir_exists
    /\ is_training
    /\ pipe[1].pc = "failed"
    /\ pipe[1].error = "AssertionError"
    /\ pipe[1].opened = 0

\* The record of the i-th sample of the stream of call c.
StreamRecord(c, i) == pipe[c].stream[i].record

\* How often record r is in the stream of call c.
Emitted(c, r) ==
    Cardinality({i \in 1..Len(pipe[c].stream) : StreamRecord(c, i) = r})

\* C10: in the training stream over N records and num_epochs epochs the
\* epochs never blend.  For every epoch e the samples at positions
\* e*N .. (e+1)*N - 1 hold every record exactly once, so no record is handed
\* out for the (e+2)-th time before every record was handed out e+1 times;
\* and whatever the shuffle order and the random seed, a finished call has
\* handed out every record exactly num_epochs times, so that any two calls
\* yield the same multiset of records.
C10_EpochsNeverBlend ==
    LET p == pipe[1]
        dataset == DatasetRecords
        N == Cardinality(dataset)
        len == Len(p.stream)
        emitted == [r \in dataset |-> Emitted(1, r)]
    IN (is_training /\ p.pc \in {"running", "end"} /\ N <= shuffle_buffer_size) =>
          /\ \A i \in 1..len : StreamRecord(1, i) \in dataset
          /\ \A e \in 0..(num_epochs - 1) :
                /\ (e + 1) * N <= len =>
                      {StreamRecord(1, i) : i \in (e * N + 1)..((e + 1) * N)} = dataset
                /\ \A i, j \in (e * N + 1)..Min(len, (e + 1) * N) :
                      i # j => StreamRecord(1, i) # StreamRecord(1, j)
          /\ \A r, q \in dataset : emitted[r] <= emitted[q] + 1
          /\ p.pc = "end" =>
                /\ len = N * num_epochs
                /\ \A r \in dataset : emitted[r] = num_epochs

\* Two epochs over two records, handed out in a different order each.
C10_Witness ==
    /\ is_training
    /\ pipe[1].pc = "end"
    /\ num_epochs = 2
    /\ Cardinality(DatasetRecords) = 2
    /\ Len(pipe[1].stream) = 4
    /\ StreamRecord(1, 1) # StreamRecord(1, 3)
    /\ StreamRecord(1, 2) = StreamRecord(1, 3)

(***************************************************************************)
(* Claim about two calls of input_fn for evaluation, checked under SpecEval*)
(***************************************************************************)
IsPrefix(s, t) ==
    /\ Len(s) <= Len(t)
    /\ \A i \in 1..Len(s) : s[i] = t[i]

\* The records of test_batch.bin in file order, standardized, neither
\* cropped nor flipped.
EvalSamples ==
    [j \in 1..file_records["test_batch.bin"] |->
        [record |-> [file |-> "test_batch.bin", index |-> j],
         crop |-> None, flip |-> FALSE, standardized |-> TRUE]]

\* C9 as stated, for calls that ask for one epoch or more: two calls for
\* evaluation that have finished have yielded the same sequence, which is
\* the records in file order read exactly once.
C9_EvalReadOnce ==
    (/\ num_epochs >= 1
     /\ pipe[1].pc = "end"
     /\ pipe[2].pc = "end") =>
        /\ pipe[1].stream = pipe[2].stream
        /\ pipe[1].stream = EvalSamples

\* C9, amended: two calls for evaluation yield the same sequence of samples
\* and of batches, whatever their random seeds: the records in file order,
\* read num_epochs times (once for num_epochs = 1, the default), never
\* shuffled, cropped or flipped.
C9_EvalDeterministic ==
    /\ \A c \in Calls :
          /\ IsPrefix(pipe[c].stream, Repeated(EvalSamples, num_epochs))
          /\ pipe[c].shuffle_buf = {}
          /\ pipe[c].pc = "end" =>
                /\ pipe[c].stream = Repeated(EvalSamples, num_epochs)
                /\ num_epochs = 1 => pipe[c].stream = EvalSamples
    /\ \/ IsPrefix(pipe[1].stream, pipe[2].stream)
       \/ IsPrefix(pipe[2].stream, pipe[1].stream)
    /\ (pipe[1].pc = "end" /\ pipe[2].pc = "end") =>
          /\ pipe[1].stream = pipe[2].stream
          /\ pipe[1].batches = pipe[2].batches

\* Two finished calls with different seeds and the same four samples.
C9_Witness ==
    /\ pipe[1].pc = "end"
    /\ pipe[2].pc = "end"
    /\ pipe[1].seed # pipe[2].seed
    /\ num_epochs = 2
    /\ Len(pipe[1].stream) = 4
    /\ pipe[1].stream = pipe[2].stream
    /\ pipe[1].stream[3] = pipe[1].stream[1]
    /\ pipe[1].stream[1] # pipe[1].stream[2]

=============================================================================
